---- MODULE Spec2Model ----
(***************************************************************************)
(* Model of src/wcs_downloader.py: the command `main`, the orchestrator    *)
(* `process_polygons` (a ThreadPoolExecutor of `workers` threads and the   *)
(* as_completed aggregation loop) and the per-polygon job                  *)
(* `download_single_polygon`, run one or more times on the same output     *)
(* directory.  Every call into a collaborator (file system, coverage       *)
(* service, raster library, clock) is one step of the job that makes it,   *)
(* and may return or raise.                                                *)
(***************************************************************************)
EXTENDS Integers, Sequences, FiniteSets, TLC

\* ------------------------------------------------------------------ bounds
MaxPolys == 2      \* polygons in the input parquet file
MaxWorkers == 2    \* largest --workers value explored
MaxRuns == 2       \* times the command is run on the output directory
MaxFaults == 1     \* collaborator calls that raise or answer with an error
MaxExtent == 4     \* largest width and height of a box given to the planner
MaxResolution == 3 \* largest --resolution given to the planner

\* ------------------------------------------------------ program constants
DEFAULT_MAX_PIXELS == 10000
DefaultResolution == 1
PreviewBytes == 500

\* --------------------------------------------------------------- inputs
\* A coordinate of a bounding box: a number, or NaN.
Num(v) == [nan |-> FALSE, v |-> v]
NaN == [nan |-> TRUE, v |-> 0]

Indices == 0 .. (MaxPolys - 1)
Workers == 1 .. MaxWorkers
\* --workers values: sequential, and the whole pool.
WorkerCounts == {1, MaxWorkers}

\* Bounding boxes a polygon of the input may have (polygon_gdf.bounds).
BBox(minx, miny, maxx, maxy) ==
    [minx |-> minx, miny |-> miny, maxx |-> maxx, maxy |-> maxy]
NaNBox == BBox(NaN, Num(0), Num(2), Num(1))
OkBox == BBox(Num(0), Num(0), Num(2), Num(1))
BigBox == BBox(Num(0), Num(0), Num(DEFAULT_MAX_PIXELS + 1), Num(1))
BBoxes == {NaNBox, OkBox, BigBox}

\* --sleep values: none, an ordinary pause, and one the clock cannot
\* represent (time.sleep raises OverflowError for it).
NoPause == [secs |-> 0, fits |-> TRUE]
ShortPause == [secs |-> 1, fits |-> TRUE]
HugePause == [secs |-> 2, fits |-> FALSE]
SleepDurations == {NoPause, ShortPause, HugePause}

\* Response bodies, run-length encoded: a sequence of runs of one
\* character.  "<", "a" and "I" take one byte in UTF-8, "e2" (a two-byte
\* character such as an accented letter) takes two.
ByteWidth(ch) == IF ch = "e2" THEN 2 ELSE 1
TileBody == << [ch |-> "I", n |-> 2], [ch |-> "a", n |-> 700] >>
XmlShort == << [ch |-> "<", n |-> 1], [ch |-> "a", n |-> 40] >>
XmlMulti == << [ch |-> "<", n |-> 1], [ch |-> "e2", n |-> 700] >>
ErrorBodies == {XmlShort, XmlMulti}

VARIABLES
    run,              \* number of the current run of the command
    mainpc,           \* position of process_polygons in the current run
    polygons,         \* bounds_df: index -> bounding box
    workers,          \* --workers
    sleep_duration,   \* --sleep
    files,            \* output directory: path -> content (NoFile: no file)
    tmpfiles,         \* temporary files that exist: {<<run, index>>}
    queue,            \* the executor's work queue (indices, in order)
    job,              \* index -> state of its download_single_polygon call
    thread_wcs,       \* thread_local: key -> the wcs attribute stored there
    completed, skipped, failed_count, failed_polygons,
    delivered,        \* index -> times as_completed yielded its future
    faults,           \* collaborator failures so far
    files0,           \* the output directory as the current run found it
    input_exists,     \* input_parquet.exists()
    loaded,           \* the current run has read the polygons
    outdir,           \* the output directory exists
    exit_code,        \* exit status of the current run (-1: still running)
    csv,              \* failed_polygons.csv as the current run wrote it
    csv_writes,       \* calls of write_error_log in the current run
    succeeded,        \* indices with a Success result in an earlier run
    csv0,             \* failed_polygons.csv as the current run found it
    plan_row,         \* planning alone: the row given to it
    plan_resolution,  \*   the resolution given to it
    plan_request      \*   the request it made, or its refusal

vars == << run, mainpc, polygons, workers, sleep_duration, files, tmpfiles,
           queue, job, thread_wcs, completed, skipped, failed_count,
           failed_polygons, delivered, faults, files0, input_exists, loaded,
           outdir, exit_code, csv, csv_writes, succeeded, csv0,
           plan_row, plan_resolution, plan_request >>

\* ------------------------------------------------------- pure helpers
Max(a, b) == IF a >= b THEN a ELSE b
Min(a, b) == IF a <= b THEN a ELSE b

\* int(x / y) for y > 0: Python's int() truncates toward zero.
TruncDiv(x, y) == IF x >= 0 THEN x \div y ELSE -((-x) \div y)

\* math.isnan(v)
IsNaN(v) == v.nan
\* any(math.isnan(v) for v in [row.minx, row.miny, row.maxx, row.maxy])
HasNaN(b) == IsNaN(b.minx) \/ IsNaN(b.miny) \/ IsNaN(b.maxx) \/ IsNaN(b.maxy)

\* Width without the lower limit of one pixel.
WidthUnclamped(b, resolution) == TruncDiv(b.maxx.v - b.minx.v, resolution)

\* width  = max(1, int((row.maxx - row.minx) / resolution))
\* height = max(1, int((row.maxy - row.miny) / resolution))
Width(b, resolution) == Max(1, TruncDiv(b.maxx.v - b.minx.v, resolution))
Height(b, resolution) == Max(1, TruncDiv(b.maxy.v - b.miny.v, resolution))

TooLarge(b, resolution, max_pixels) ==
    Width(b, resolution) > max_pixels \/ Height(b, resolution) > max_pixels

\* The keyword arguments of wcs.getCoverage(identifier=coverage_id,
\* bbox=bbox, crs="EPSG:25833", format="GeoTIFF", width=width, height=height)
GetCoverageCall(b, width, height) ==
    [kind |-> "getCoverage", identifier |-> "coverage_id",
     bbox |-> << b.minx.v, b.miny.v, b.maxx.v, b.maxy.v >>,
     crs |-> "EPSG:25833", format |-> "GeoTIFF",
     width |-> width, height |-> height]
\* the ValueError of the size check, in place of a request
Refusal(width, height, max_pixels) ==
    [kind |-> "too_large", width |-> width, height |-> height,
     max_pixels |-> max_pixels]
NoRequest == [kind |-> "none"]

\* Lines 124-152 as a function of the row: bbox, width, height, the
\* size check, and the request that is sent.
PlannedRequest(b, resolution, max_pixels) ==
    IF TooLarge(b, resolution, max_pixels)
    THEN Refusal(Width(b, resolution), Height(b, resolution), max_pixels)
    ELSE GetCoverageCall(b, Width(b, resolution), Height(b, resolution))

\* OutputFile with the index left out of the name.
OutputFileNoIndex(resolution, index) ==
    [name |-> "D_m.tif", resolution |-> resolution, index |-> 0]

\* output_folder / f"D_{resolution}m_{index}.tif"
OutputFile(resolution, index) ==
    [name |-> "D_m.tif", resolution |-> resolution, index |-> index]
Paths == { OutputFile(DefaultResolution, i) : i \in Indices }

\* downloaded_data.startswith(b'<') or downloaded_data.startswith(b'<?')
StartsWithMarkup(body) == body # << >> /\ Head(body).ch = "<"

\* downloaded_data[:500].decode('utf-8', errors='replace'): the first k
\* BYTES of the body, decoded; a character cut by the limit decodes to
\* one replacement character ("fffd").
RECURSIVE DecodeBytePrefix(_, _)
DecodeBytePrefix(body, k) ==
    IF body = << >> \/ k = 0 THEN << >>
    ELSE LET r == Head(body)
             w == ByteWidth(r.ch)
             whole == Min(r.n, k \div w)
             left == k - whole * w
         IN  IF whole = r.n
             THEN << r >> \o DecodeBytePrefix(Tail(body), left)
             ELSE (IF whole > 0 THEN << [ch |-> r.ch, n |-> whole] >> ELSE << >>)
                  \o (IF left > 0 THEN << [ch |-> "fffd", n |-> 1] >> ELSE << >>)

ErrorPreview(body) == DecodeBytePrefix(body, PreviewBytes)

\* The first k CHARACTERS of a body.
RECURSIVE CharPrefix(_, _)
CharPrefix(body, k) ==
    IF body = << >> \/ k = 0 THEN << >>
    ELSE LET r == Head(body)
         IN  IF r.n <= k
             THEN << r >> \o CharPrefix(Tail(body), k - r.n)
             ELSE << [ch |-> r.ch, n |-> k] >>

\* --------------------------------------------------- results, exceptions
Msg(text, args, preview) == [text |-> text, args |-> args, preview |-> preview]
NoMsg == Msg("None", << >>, << >>)
Exc(type, message) == [type |-> type, message |-> message]
NoExc == Exc("None", NoMsg)

\* raise ValueError(f"Invalid geometry bounds (NaN values) for polygon {index}")
NaNError(index) ==
    Exc("ValueError", Msg("Invalid geometry bounds (NaN values) for polygon",
                          << index >>, << >>))
\* raise ValueError(f"Requested raster too large: {width}x{height} pixels. Max is ...")
TooLargeError(width, height, max_pixels) ==
    Exc("ValueError", Msg("Requested raster too large",
                          << width, height, max_pixels >>, << >>))
\* raise ValueError(f"WCS returned error response: {error_preview}")
ServiceResponseError(body) ==
    Exc("ValueError", Msg("WCS returned error response", << >>, ErrorPreview(body)))
\* What a collaborator raises at a stage: its class and text are the
\* library's; the model names them after the stage.
StageError(stage) == Exc(stage, Msg(stage, << >>, << >>))

\* DownloadResult(index, success, skipped, error_type, error_message)
DownloadResult(index, success, isSkipped, error_type, error_message) ==
    [index |-> index, success |-> success, skipped |-> isSkipped,
     error_type |-> error_type, error_message |-> error_message]
NoResult == DownloadResult(-1, FALSE, FALSE, "None", NoMsg)
SkippedResult(index) == DownloadResult(index, TRUE, TRUE, "None", NoMsg)
SuccessResult(index) == DownloadResult(index, TRUE, FALSE, "None", NoMsg)
\* except Exception as e: DownloadResult(index, False, type(e).__name__, str(e))
FailedResult(index, e) == DownloadResult(index, FALSE, FALSE, e.type, e.message)

IsSkipped(r) == r.skipped
IsSuccess(r) == r.success /\ ~r.skipped
IsFailed(r) == r # NoResult /\ ~r.success /\ ~r.skipped

\* ------------------------------------------------------------ sessions
\* A WebCoverageService object, told apart by the thread that built it.
Session(w) == [by |-> w]
NoSession == [by |-> 0]

\* One store for the whole module instead of one per thread.
ModuleKey(w) == 1

\* threading.local(): each thread reads and writes attributes of its own.
ThreadKey(w) == w

\* ----------------------------------------------------------- job state
\* One call of download_single_polygon.  pc is the statement it is at,
\* exc the exception in flight (inside try/finally, or out of the call),
\* wcs the session its local variable holds,
\* net the network calls it has made, tmp whether it created a temporary
\* file, wrote how often it created or wrote its output path, clobbered
\* whether such a write found a file there, slept whether it paused,
\* body the response body it read, stages the stages it entered.
NewJob ==
    [pc |-> "queued", worker |-> 0, result |-> NoResult, exc |-> NoExc,
     wcs |-> NoSession, net |-> << >>, tmp |-> FALSE, wrote |-> 0, clobbered |-> FALSE,
     slept |-> FALSE, body |-> << >>, stages |-> << >>]

Stage(j, name) == [j EXCEPT !.stages = Append(@, name)]

Terminal(j) == j.pc \in {"done", "raised"}
Running(j) == j.pc \notin {"queued", "done", "raised"}
Busy(w) == \E i \in Indices : job[i].worker = w /\ Running(job[i])

Path(i) == OutputFile(DefaultResolution, i)
NoFile == [kind |-> "none", run |-> 0, index |-> -1]
\* failed_polygons.csv was not written in this run
NoLog == [run |-> 0, rows |-> << >>]
\* Of the failed_polygons.csv an earlier run left, the model keeps the
\* run that wrote it and the indices of its rows.
OldLog(log) ==
    [run |-> log.run, indices |-> { log.rows[k].index : k \in 1 .. Len(log.rows) }]
NoOldLog == [run |-> 0, indices |-> {}]
Exists(i) == files[Path(i)] # NoFile
Tile(i) == [kind |-> "tile", run |-> run, index |-> i]
Partial(i) == [kind |-> "partial", run |-> run, index |-> i]

cfg == << polygons, workers, sleep_duration, input_exists >>
agg == << completed, skipped, failed_count, failed_polygons, delivered >>
out == << loaded, outdir, exit_code, csv, csv_writes >>
hist == << files0, succeeded, csv0 >>
planner == << plan_row, plan_resolution, plan_request >>

Fault == faults < MaxFaults /\ faults' = faults + 1
NoFault == faults' = faults

\* return DownloadResult(...) from the call
Return(i, j, res) ==
    job' = [job EXCEPT ![i] = [j EXCEPT !.pc = "done", !.result = res,
                                        !.exc = NoExc, !.worker = 0,
                                        !.wcs = NoSession]]
\* an exception inside the try block: the except clause returns Failed
Caught(i, j, e) == Return(i, j, FailedResult(i, e))
\* an exception outside the try block leaves the call
Propagate(i, j, e) ==
    job' = [job EXCEPT ![i] = [j EXCEPT !.pc = "raised", !.exc = e,
                                        !.worker = 0]]
Goto(i, j, pc) == job' = [job EXCEPT ![i] = [j EXCEPT !.pc = pc]]

\* ------------------------------------------------------------- actions
\* The command before its first run, on an empty output directory.
CommandInit ==
    /\ run = 1
    /\ mainpc = "start"
    /\ polygons \in [Indices -> BBoxes]
    /\ workers \in WorkerCounts
    /\ sleep_duration \in SleepDurations
    /\ files = [p \in Paths |-> NoFile]
    /\ tmpfiles = {}
    /\ queue = << >>
    /\ job = [i \in Indices |-> NewJob]
    /\ thread_wcs = [w \in Workers |-> NoSession]
    /\ completed = 0 /\ skipped = 0 /\ failed_count = 0
    /\ failed_polygons = << >>
    /\ delivered = [i \in Indices |-> 0]
    /\ faults = 0
    /\ files0 = files
    /\ input_exists \in BOOLEAN
    /\ loaded = FALSE
    /\ outdir = FALSE
    /\ exit_code = -1
    /\ csv = NoLog
    /\ csv_writes = 0
    /\ succeeded = {}
    /\ csv0 = NoOldLog

Init ==
    /\ CommandInit
    /\ plan_row = OkBox
    /\ plan_resolution = DefaultResolution
    /\ plan_request = NoRequest

\* main: if not input_parquet.exists(): raise typer.Exit(1)
InputNotFound ==
    /\ mainpc = "start"
    /\ ~input_exists
    /\ mainpc' = "exited"
    /\ exit_code' = 1
    /\ UNCHANGED << run, cfg, files, tmpfiles, queue, job, thread_wcs, agg, faults,
                    loaded, outdir, csv, csv_writes, hist, planner >>

\* main calls process_polygons, which runs up to the end of the submit
\* comprehension: the polygons are read, the output directory is made,
\* the counters start at 0 and one job per row is queued, in row order.
Submit ==
    /\ mainpc = "start"
    /\ input_exists
    /\ mainpc' = "collect"
    /\ loaded' = TRUE
    /\ outdir' = TRUE
    /\ queue' = [k \in 1 .. MaxPolys |-> k - 1]
    /\ UNCHANGED << run, cfg, files, tmpfiles, job, thread_wcs, agg, faults,
                    exit_code, csv, csv_writes, hist, planner >>

\* bounds = [row.minx, ...]; if any(math.isnan(v) for v in bounds): raise
ValidateBounds(i, j) ==
    LET v == Stage(j, "validate")
    IN  IF HasNaN(polygons[i]) THEN Caught(i, v, NaNError(i))
                               ELSE Goto(i, v, "connect")

\* hasattr(thread_local, "wcs"), on thread w
HasSession(w) == thread_wcs[ThreadKey(w)] # NoSession

\* An idle pool thread takes the next work item and calls
\* download_single_polygon.
\* if output_file.exists(): return Skipped   (outside the try block);
\* then, inside it, the validation of the bounds.
StartJob(w) ==
    /\ mainpc \in {"collect", "aborting"}
    /\ w <= workers
    /\ ~Busy(w)
    /\ \A v \in 1 .. (w - 1) : Busy(v) \/ HasSession(v) # HasSession(w)
    /\ queue # << >>
    /\ queue' = Tail(queue)
    /\ LET i == Head(queue)
           j == Stage([job[i] EXCEPT !.worker = w], "skip_check")
       IN  \/ /\ NoFault
              /\ IF Exists(i) THEN Return(i, j, SkippedResult(i))
                              ELSE ValidateBounds(i, j)
           \/ /\ Fault
              /\ Propagate(i, j, StageError("exists"))
    /\ UNCHANGED << run, mainpc, cfg, files, tmpfiles, thread_wcs, agg, out, hist, planner >>

\* bbox = ...; width = ...; height = ...
\* if width > max_pixels or height > max_pixels: raise ValueError
Plan(i, j) ==
    LET b == polygons[i]
        v == Stage(j, "plan")
    IN  IF HasNaN(b)      \* int(nan) raises ValueError
        THEN Caught(i, v, Exc("ValueError",
                 Msg("cannot convert float NaN to integer", << >>, << >>)))
        ELSE IF TooLarge(b, DefaultResolution, DEFAULT_MAX_PIXELS)
        THEN Caught(i, v, TooLargeError(Width(b, DefaultResolution),
                                        Height(b, DefaultResolution),
                                        DEFAULT_MAX_PIXELS))
        ELSE Goto(i, v, "request")

\* wcs = get_wcs_connection(wcs_url): the thread's session, constructed
\* (a capabilities request to the service) when the thread has none;
\* then the planning of the request.
GetConnection(i) ==
    /\ job[i].pc = "connect"
    /\ LET w == job[i].worker
           c == Stage(job[i], "connect")
       IN  IF HasSession(w)
           THEN /\ Plan(i, [c EXCEPT !.wcs = thread_wcs[ThreadKey(w)]])
                /\ UNCHANGED << thread_wcs, faults >>
           ELSE LET j == [c EXCEPT !.net = Append(@, "handshake")]
                IN  \/ /\ NoFault
                       /\ thread_wcs' = [thread_wcs EXCEPT ![ThreadKey(w)] = Session(w)]
                       /\ Plan(i, [j EXCEPT !.wcs = Session(w)])
                    \/ /\ Fault
                       /\ Caught(i, j, StageError("WebCoverageService"))
                       /\ UNCHANGED thread_wcs
    /\ UNCHANGED << run, mainpc, cfg, files, tmpfiles, queue, agg, out, hist, planner >>

\* CheckBody without the test for an error document.
CheckBodyAcceptsAll(i, j, body) == Goto(i, [j EXCEPT !.body = body], "temp")

\* the check of the body read from the response
CheckBody(i, j, body) ==
    LET r == [j EXCEPT !.body = body]
    IN  IF StartsWithMarkup(body) THEN Caught(i, r, ServiceResponseError(body))
                                  ELSE Goto(i, r, "temp")

\* response = wcs.getCoverage(...); downloaded_data = response.read()
GetCoverage(i) ==
    /\ job[i].pc = "request"
    /\ LET j == [Stage(job[i], "request") EXCEPT !.net = Append(@, "getCoverage")]
       IN  \/ /\ NoFault
              /\ CheckBody(i, j, TileBody)
           \/ /\ Fault
              /\ \E body \in ErrorBodies : CheckBody(i, j, body)
           \/ /\ Fault
              /\ Caught(i, j, StageError("getCoverage"))
    /\ UNCHANGED << run, mainpc, cfg, files, tmpfiles, queue, thread_wcs, agg, out, hist, planner >>

\* with tempfile.NamedTemporaryFile(suffix=".tif", delete=False) as tmp:
\*     tmp.write(downloaded_data); temp_path = Path(tmp.name)
WriteTemp(i) ==
    /\ job[i].pc = "temp"
    /\ LET j == [Stage(job[i], "temp") EXCEPT !.tmp = TRUE]
       IN  \/ /\ NoFault
              /\ tmpfiles' = tmpfiles \cup {<< run, i >>}
              /\ Goto(i, j, "mask")
           \/ /\ Fault      \* the file is created and write() raises
              /\ tmpfiles' = tmpfiles \cup {<< run, i >>}
              /\ Caught(i, j, StageError("tmp.write"))
    /\ UNCHANGED << run, mainpc, cfg, files, queue, thread_wcs, agg, out, hist, planner >>

\* Mask with a failure of the masking swallowed: the job goes on to save.
MaskFailureIgnored(i) ==
    /\ job[i].pc = "mask"
    /\ LET j == Stage(job[i], "mask")
       IN  \/ /\ NoFault
              /\ Goto(i, j, "save")
           \/ /\ Fault
              /\ Goto(i, [j EXCEPT !.exc = StageError("mask")], "save")
    /\ UNCHANGED << run, mainpc, cfg, files, tmpfiles, queue, thread_wcs, agg, out, hist, planner >>

\* raster = gu.Raster(temp_path); mask = ...; raster.set_mask(~mask)
Mask(i) ==
    /\ job[i].pc = "mask"
    /\ LET j == Stage(job[i], "mask")
       IN  \/ /\ NoFault
              /\ Goto(i, j, "save")
           \/ /\ Fault
              /\ Goto(i, [j EXCEPT !.exc = StageError("mask")], "unlink")
    /\ UNCHANGED << run, mainpc, cfg, files, tmpfiles, queue, thread_wcs, agg, out, hist, planner >>

\* raster.save(output_file): when it raises, the file it was writing
\* may or may not have been created.
Save(i) ==
    /\ job[i].pc = "save"
    /\ LET j == Stage(job[i], "save")
           w == [j EXCEPT !.wrote = @ + 1, !.clobbered = @ \/ Exists(i)]
       IN  \/ /\ NoFault
              /\ files' = [files EXCEPT ![Path(i)] = Tile(i)]
              /\ Goto(i, w, "unlink")
           \/ /\ Fault
              /\ files' = [files EXCEPT ![Path(i)] = Partial(i)]
              /\ Goto(i, [w EXCEPT !.exc = StageError("save")], "unlink")
           \/ /\ Fault
              /\ UNCHANGED files
              /\ Goto(i, [j EXCEPT !.exc = StageError("save")], "unlink")
    /\ UNCHANGED << run, mainpc, cfg, tmpfiles, queue, thread_wcs, agg, out, hist, planner >>

\* AfterCleanup with the test of the duration lost: every job pauses.
AfterCleanupAlwaysPauses(i, j) == Goto(i, j, "sleep")

\* if sleep_duration > 0: ...   evaluated once the finally block is left
AfterCleanup(i, j) ==
    IF sleep_duration.secs > 0 THEN Goto(i, j, "sleep")
                               ELSE Return(i, j, SuccessResult(i))

\* finally: temp_path.unlink(missing_ok=True); then the exception in
\* flight, if any, reaches the except clause.
Unlink(i) ==
    /\ job[i].pc = "unlink"
    /\ LET j == Stage(job[i], "unlink")
       IN  \/ /\ NoFault
              /\ tmpfiles' = tmpfiles \ {<< run, i >>}
              /\ IF j.exc # NoExc THEN Caught(i, j, j.exc)
                                  ELSE AfterCleanup(i, j)
           \/ /\ Fault
              /\ UNCHANGED tmpfiles
              /\ Caught(i, j, StageError("unlink"))
    /\ UNCHANGED << run, mainpc, cfg, files, queue, thread_wcs, agg, out, hist, planner >>

\* time.sleep(sleep_duration); return DownloadResult(index, success=True)
Sleep(i) ==
    /\ job[i].pc = "sleep"
    /\ LET j == Stage(job[i], "sleep")
       IN  IF sleep_duration.fits
           THEN Return(i, [j EXCEPT !.slept = TRUE], SuccessResult(i))
           ELSE Caught(i, j, Exc("OverflowError",
                                 Msg("timestamp out of range", << >>, << >>)))
    /\ UNCHANGED << run, mainpc, cfg, files, tmpfiles, queue, thread_wcs, agg, faults, out, hist, planner >>

\* FailedPolygon(index=result.index, minx=row.minx, ..., error_type=
\* result.error_type or "Unknown", error_message=... or "Unknown error")
FailedPolygon(res, row) ==
    [index |-> res.index, bbox |-> row,
     error_type |-> IF res.error_type = "None" THEN "Unknown" ELSE res.error_type,
     error_message |-> IF res.error_message = NoMsg
                       THEN Msg("Unknown error", << >>, << >>)
                       ELSE res.error_message]

\* Count with the final else branch lost: a failed result is not counted.
CountDropsFailed(res, row) ==
    IF res.skipped
    THEN /\ skipped' = skipped + 1
         /\ UNCHANGED << completed, failed_count, failed_polygons >>
    ELSE IF res.success
    THEN /\ completed' = completed + 1
         /\ UNCHANGED << skipped, failed_count, failed_polygons >>
    ELSE UNCHANGED << completed, skipped, failed_count, failed_polygons >>

\* The counters of the aggregation loop after one result.
Count(res, row) ==
    IF res.skipped
    THEN /\ skipped' = skipped + 1
         /\ UNCHANGED << completed, failed_count, failed_polygons >>
    ELSE IF res.success
    THEN /\ completed' = completed + 1
         /\ UNCHANGED << skipped, failed_count, failed_polygons >>
    ELSE /\ failed_count' = failed_count + 1
         /\ failed_polygons' = Append(failed_polygons, FailedPolygon(res, row))
         /\ UNCHANGED << completed, skipped >>

\* for future in as_completed(futures): row = futures[future];
\* result = future.result(); ...   One finished future is yielded, once;
\* a job that raised makes future.result() raise and ends the loop.
Collect(i) ==
    /\ mainpc = "collect"
    /\ Terminal(job[i])
    /\ delivered[i] = 0
    /\ delivered' = [delivered EXCEPT ![i] = @ + 1]
    /\ IF job[i].pc = "raised"
       THEN /\ mainpc' = "aborting"
            /\ UNCHANGED << completed, skipped, failed_count, failed_polygons >>
       ELSE /\ Count(job[i].result, polygons[i])
            /\ UNCHANGED mainpc
    /\ UNCHANGED << run, cfg, files, tmpfiles, queue, job, thread_wcs, faults, out, hist, planner >>

\* as_completed is exhausted; the executor's with block ends;
\* return completed, skipped, failed_count, failed_polygons
ReturnCounts ==
    /\ mainpc = "collect"
    /\ \A i \in Indices : delivered[i] > 0
    /\ mainpc' = "returned"
    /\ UNCHANGED << run, cfg, files, tmpfiles, queue, job, thread_wcs, agg, faults, out, hist, planner >>

\* write_error_log(failed, output_folder): the file is opened with "w"
\* and gets the header and one row per element of failed, in order.
WriteErrorLog(failed) == [run |-> run, rows |-> failed]

\* main after process_polygons returned: the summary table, then
\* if failed_polygons: write_error_log(...); the command ends normally.
Finish ==
    /\ mainpc = "returned"
    /\ mainpc' = "exited"
    /\ exit_code' = 0
    /\ IF failed_polygons # << >>
       THEN /\ csv' = WriteErrorLog(failed_polygons)
            /\ csv_writes' = csv_writes + 1
       ELSE UNCHANGED << csv, csv_writes >>
    /\ UNCHANGED << run, cfg, files, tmpfiles, queue, job, thread_wcs, agg, faults,
                    loaded, outdir, hist, planner >>

\* The exception leaves the with block: the executor's shutdown waits for
\* every submitted job, then process_polygons raises; main has no
\* handler, so the command ends with a traceback and exit status 1.
Abort ==
    /\ mainpc = "aborting"
    /\ \A i \in Indices : Terminal(job[i])
    /\ mainpc' = "raised"
    /\ exit_code' = 1
    /\ UNCHANGED << run, cfg, files, tmpfiles, queue, job, thread_wcs, agg, faults,
                    loaded, outdir, csv, csv_writes, hist, planner >>

\* The same command is run again on the same output directory: a new
\* process, with the files the earlier runs left.
NextRun ==
    /\ mainpc \in {"exited", "raised"}
    /\ run < MaxRuns
    /\ run' = run + 1
    /\ mainpc' = "start"
    /\ job' = [i \in Indices |-> NewJob]
    /\ thread_wcs' = [w \in Workers |-> NoSession]
    /\ completed' = 0 /\ skipped' = 0 /\ failed_count' = 0
    /\ failed_polygons' = << >>
    /\ delivered' = [i \in Indices |-> 0]
    /\ files0' = files
    /\ loaded' = FALSE
    /\ exit_code' = -1
    /\ csv_writes' = 0
    /\ succeeded' = succeeded \cup { i \in Indices : IsSuccess(job[i].result) }
    /\ csv' = NoLog
    /\ csv0' = IF csv # NoLog THEN OldLog(csv) ELSE csv0
    /\ UNCHANGED << cfg, files, tmpfiles, queue, faults, outdir, planner >>

Next ==
    \/ InputNotFound
    \/ Submit
    \/ \E w \in Workers : StartJob(w)
    \/ \E i \in Indices : GetConnection(i)
    \/ \E i \in Indices : GetCoverage(i)
    \/ \E i \in Indices : WriteTemp(i)
    \/ \E i \in Indices : Mask(i)
    \/ \E i \in Indices : Save(i)
    \/ \E i \in Indices : Unlink(i)
    \/ \E i \in Indices : Sleep(i)
    \/ \E i \in Indices : Collect(i)
    \/ ReturnCounts
    \/ Finish
    \/ Abort
    \/ NextRun

Spec == Init /\ [][Next]_vars

\* ------------------------------------------------------ planning alone
\* Boxes with maxx >= minx and maxy >= miny: every extent up to
\* MaxExtent, zero included, and one wider than max_pixels allows.
Extents == 0 .. MaxExtent
PlanBoxes ==
    { BBox(Num(x), Num(y), Num(x + dx), Num(y + dy)) :
        x \in {0, 3}, y \in {0}, dx \in Extents \cup {DEFAULT_MAX_PIXELS + 1},
        dy \in Extents }
Resolutions == 1 .. MaxResolution

PlanInit ==
    /\ CommandInit
    /\ polygons = [i \in Indices |-> OkBox]
    /\ workers = 1
    /\ sleep_duration = NoPause
    /\ input_exists
    /\ plan_row \in PlanBoxes
    /\ plan_resolution \in Resolutions
    /\ plan_request = NoRequest

\* The planning statements of download_single_polygon applied to the row.
PlanRequest ==
    /\ plan_request = NoRequest
    /\ plan_request' = PlannedRequest(plan_row, plan_resolution, DEFAULT_MAX_PIXELS)
    /\ UNCHANGED << run, mainpc, cfg, files, tmpfiles, queue, job, thread_wcs, agg,
                    faults, out, hist, plan_row, plan_resolution >>

PlanNext == PlanRequest

PlanSpec == PlanInit /\ [][PlanNext]_vars

\* The next statement of the running call download_single_polygon(k).
JobStep(k) ==
    \/ GetConnection(k) \/ GetCoverage(k) \/ WriteTemp(k) \/ Mask(k)
    \/ Save(k) \/ Unlink(k) \/ Sleep(k)
\* The next statement of the main thread.
MainStep ==
    \/ InputNotFound \/ Submit \/ (\E i \in Indices : Collect(i))
    \/ ReturnCounts \/ Finish \/ Abort

\* The same program under a fair scheduler: the main thread and every
\* pool thread keep running, and every call into a collaborator returns
\* or raises.  Nothing obliges the user to run the command again.
FairSpec ==
    /\ Spec
    /\ WF_vars(MainStep)
    /\ WF_vars(\E w \in Workers : StartJob(w))
    /\ \A k \in Indices : WF_vars(JobStep(k))

\* ======================================================================
\* Claims
\* ======================================================================
Delivered == { i \in Indices : delivered[i] > 0 }
FileAtStart(i) == files0[Path(i)] # NoFile

\* The spec's name for a failure, read off the result the code builds
\* (error_type is the exception's class name, the text tells the site).
Kind(res) ==
    IF res.error_message.text = "Invalid geometry bounds (NaN values) for polygon"
    THEN "InvalidGeometry"
    ELSE IF res.error_message.text = "Requested raster too large"
    THEN "RequestTooLarge"
    ELSE IF res.error_message.text = "WCS returned error response"
    THEN "ServiceError"
    ELSE res.error_type

\* C1: no future is yielded twice; while the loop runs the three counters
\* add up to the number of results delivered; and when process_polygons
\* returns, every index was delivered exactly once, as a result carrying
\* that index, and completed + skipped + failed_count = N.
C1_ExactlyOnce ==
    /\ \A i \in Indices : delivered[i] <= 1
    /\ mainpc \in {"collect", "returned"} =>
          completed + skipped + failed_count = Cardinality(Delivered)
    /\ mainpc = "returned" =>
          /\ \A i \in Indices : delivered[i] = 1 /\ job[i].result.index = i
          /\ completed + skipped + failed_count = MaxPolys
          /\ completed = Cardinality({i \in Indices : IsSuccess(job[i].result)})
          /\ skipped = Cardinality({i \in Indices : IsSkipped(job[i].result)})
          /\ failed_count = Cardinality({i \in Indices : IsFailed(job[i].result)})

\* A run of the whole pool returns with results of two kinds, one Failed.
C1_Witness ==
    /\ mainpc = "returned"
    /\ workers = MaxWorkers
    /\ failed_count >= 1
    /\ completed + skipped >= 1

\* C2: a job whose output file exists when it starts returns Skipped,
\* whatever its bounds, and makes no network call, creates no temporary
\* file and writes no file.
C2_ExistingIsSkipped ==
    \A i \in Indices :
        (Terminal(job[i]) /\ FileAtStart(i)) =>
            /\ job[i].pc = "done"
            /\ job[i].result = SkippedResult(i)
            /\ job[i].net = << >>
            /\ ~job[i].tmp
            /\ job[i].wrote = 0
            /\ files[Path(i)] = files0[Path(i)]

\* C3: a job with a NaN coordinate and no output file ends as Failed
\* with kind InvalidGeometry, having attempted no network call.
C3_NaNFailsBeforeNetwork ==
    \A i \in Indices :
        (Terminal(job[i]) /\ HasNaN(polygons[i]) /\ ~FileAtStart(i)) =>
            /\ job[i].pc = "done"
            /\ IsFailed(job[i].result)
            /\ Kind(job[i].result) = "InvalidGeometry"
            /\ job[i].net = << >>

Oversize(i) ==
    ~HasNaN(polygons[i]) /\ TooLarge(polygons[i], DefaultResolution, DEFAULT_MAX_PIXELS)

\* C4: a job whose width or height exceeds max_pixels, once it has
\* returned its result, has failed with kind RequestTooLarge carrying
\* the computed dimensions and the bound, and has made no network call
\* (no session handshake, no coverage request).
C4_OversizeFailsBeforeNetwork ==
    \A i \in Indices :
        (job[i].pc = "done" /\ Oversize(i) /\ ~FileAtStart(i)) =>
            /\ IsFailed(job[i].result)
            /\ Kind(job[i].result) = "RequestTooLarge"
            /\ job[i].result.error_message.args =
                   << Width(polygons[i], DefaultResolution),
                      Height(polygons[i], DefaultResolution),
                      DEFAULT_MAX_PIXELS >>
            /\ job[i].net = << >>

\* What C5 says of a job that read an error document, but for the
\* preview its message carries.
ErrorDocumentRejected(i) ==
    /\ job[i].pc = "done"
    /\ IsFailed(job[i].result)
    /\ job[i].result.error_type = "ValueError"
    /\ Kind(job[i].result) = "ServiceError"
    /\ \A k \in 1 .. Len(job[i].stages) : job[i].stages[k] \notin {"temp", "mask", "save"}
    /\ ~job[i].tmp
    /\ << run, i >> \notin tmpfiles
    /\ job[i].wrote = 0
    /\ files[Path(i)] = files0[Path(i)]

\* C5 as stated: a job whose response body begins with "<" fails with
\* kind ServiceError and a message containing the first 500 CHARACTERS of
\* the body, never reaches masking and creates no temporary or output
\* file.  (The preview has at most 500 characters, so it contains the
\* first 500 characters of the body only by being them.)
C5_PreviewIsFirstCharacters ==
    \A i \in Indices :
        StartsWithMarkup(job[i].body) =>
            /\ ErrorDocumentRejected(i)
            /\ job[i].result.error_message.preview =
                   CharPrefix(job[i].body, PreviewBytes)

\* C5 amended: ... and a message containing the first 500 BYTES of the
\* body decoded as UTF-8 with replacement: the whole body when it is
\* shorter, and for a body of two-byte characters after the "<", 249 of
\* them and one replacement character.
C5_PreviewIsFirstBytes ==
    \A i \in Indices :
        StartsWithMarkup(job[i].body) =>
            /\ ErrorDocumentRejected(i)
            /\ job[i].result.error_message.preview =
                   DecodeBytePrefix(job[i].body, PreviewBytes)
            /\ job[i].body = XmlShort =>
                   job[i].result.error_message.preview = XmlShort
            /\ job[i].body = XmlMulti =>
                   job[i].result.error_message.preview =
                       << [ch |-> "<", n |-> 1], [ch |-> "e2", n |-> 249],
                          [ch |-> "fffd", n |-> 1] >>

\* A job has read an error document of two-byte characters and failed.
C5_Witness ==
    \E i \in Indices :
        job[i].body = XmlMulti /\ job[i].pc = "done" /\ IsFailed(job[i].result)

\* C6: a job that returned Success created exactly one file, at its own
\* output path; a job that returned Skipped or Failed created none.
\* Stated of the runs in which every collaborator call succeeded, where
\* it already fails.
C6_FilesFollowResult ==
    \A i \in Indices :
        (faults = 0 /\ job[i].pc = "done") =>
            IF IsSuccess(job[i].result)
            THEN job[i].wrote = 1 /\ files[Path(i)] = Tile(i)
            ELSE job[i].wrote = 0 /\ files[Path(i)] = files0[Path(i)]

\* C7: no write finds a file at its path; a file the run found is the
\* same file afterwards; a file written in this run was written by the
\* job of its own index.
C7_NoOverwrite ==
    /\ \A i \in Indices : ~job[i].clobbered
    /\ \A p \in Paths :
          /\ files0[p] # NoFile => files[p] = files0[p]
          /\ files[p] # files0[p] =>
                /\ files[p].run = run
                /\ Path(files[p].index) = p
                /\ job[files[p].index].wrote = 1

\* In a second run one index is skipped for its file and another job
\* writes its own.
C7_Witness ==
    /\ run = 2
    /\ \E i, k \in Indices :
          /\ i # k
          /\ FileAtStart(i) /\ Terminal(job[i])
          /\ ~FileAtStart(k) /\ job[k].wrote = 1 /\ Terminal(job[k])

\* C8: when a job has reached its terminal result, no temporary file it
\* created exists.
C8_NoTempSurvives ==
    \A i \in Indices : Terminal(job[i]) => << run, i >> \notin tmpfiles

\* C9: no failure leaves a job as an exception, and the aggregation loop
\* is never ended by one: every job that ends ends with a result.
C9_NothingPropagates ==
    /\ \A i \in Indices : job[i].pc # "raised"
    /\ mainpc \notin {"aborting", "raised"}

\* The job went past the skip check: it was attempted.
Attempted(i) == \E k \in 1 .. Len(job[i].stages) : job[i].stages[k] = "validate"

\* C10: every index that failed in the first run has no output file when
\* the first run has returned (so the second run finds none); and when
\* the second run has returned, the indices attempted are exactly those
\* with no file at its start, and every file it found is unchanged.
\* Stated of the runs in which every collaborator call succeeded, where
\* it already fails.
C10_ResumeAttemptsMissing ==
    /\ (faults = 0 /\ run = 1 /\ mainpc = "returned") =>
          \A i \in Indices : IsFailed(job[i].result) => ~Exists(i)
    /\ (faults = 0 /\ run = 2 /\ mainpc = "returned") =>
          \A i \in Indices :
              /\ Attempted(i) <=> ~FileAtStart(i)
              /\ FileAtStart(i) => files[Path(i)] = files0[Path(i)]

\* C11: a session is held only by the thread that built it: the session
\* a running job uses is the one stored for its own worker and was built
\* by that worker.  Once a worker has a session it keeps that session for
\* the rest of the run, and a connection request on a worker that has
\* one makes no network call (nothing is constructed).
C11_Inv ==
    /\ \A w \in Workers :
          thread_wcs[w] # NoSession => thread_wcs[w] = Session(w)
    /\ \A i \in Indices :
          job[i].wcs # NoSession =>
              /\ Running(job[i])
              /\ job[i].wcs = Session(job[i].worker)
              /\ job[i].wcs = thread_wcs[job[i].worker]
    /\ \A i \in Indices :
          job[i].pc \in {"request", "temp", "mask", "save", "unlink", "sleep"} =>
              job[i].wcs # NoSession

C11_Step ==
    /\ \A w \in Workers :
          (thread_wcs[w] # NoSession /\ run' = run) =>
              thread_wcs'[w] = thread_wcs[w]
    /\ \A i \in Indices :
          (job[i].pc = "connect" /\ job'[i].pc # "connect"
              /\ thread_wcs[job[i].worker] # NoSession) =>
              job'[i].net = job[i].net

C11_SessionPerWorker == C11_Inv /\ [][C11_Inv' /\ C11_Step]_vars

\* A worker's second job got the session the worker already had, with no
\* handshake, while the whole pool is at work.
C11_Witness ==
    /\ workers = MaxWorkers
    /\ \E i \in Indices :
          /\ job[i].pc = "request"
          /\ job[i].net = << >>
          /\ job[i].wcs = Session(job[i].worker)

\* The command has ended after reading the polygons.
RunEnded == loaded /\ mainpc \in {"exited", "raised"}
AllCollected == \A i \in Indices : delivered[i] = 1
FailedIndices == { i \in Indices : IsFailed(job[i].result) }
RecordsOf(i) == { k \in 1 .. Len(failed_polygons) : failed_polygons[k].index = i }

\* C12: when a run has ended, failed_polygons holds exactly one record
\* for each index whose job returned Failed and none for another index;
\* a record carries the bounding box of the polygon of its index and the
\* error type and message of that job's result; write_error_log is called
\* at most once in a run, only after every result was collected, with
\* that list, and it is called when the list is not empty.
C12_FailedRecords ==
    /\ csv_writes <= 1
    /\ csv_writes = 1 =>
          /\ AllCollected
          /\ csv.run = run
          /\ csv.rows = failed_polygons
    /\ RunEnded =>
          /\ \A i \in FailedIndices : Cardinality(RecordsOf(i)) = 1
          /\ \A k \in 1 .. Len(failed_polygons) :
                LET rec == failed_polygons[k]
                IN  /\ rec.index \in FailedIndices
                    /\ rec.bbox = polygons[rec.index]
                    /\ rec.error_type = job[rec.index].result.error_type
                    /\ rec.error_message = job[rec.index].result.error_message
          /\ FailedIndices # {} => csv_writes = 1

\* C13: when the input path does not exist the command ends with exit
\* status 1 and has read no polygon, made no output directory, queued no
\* job, made no network call and written no file; when it exists, the
\* command ends with exit status 0.
C13_ExitCode ==
    /\ (~input_exists /\ mainpc # "start") =>
          /\ mainpc = "exited"
          /\ exit_code = 1
          /\ ~loaded
          /\ ~outdir
          /\ queue = << >>
          /\ \A i \in Indices : job[i] = NewJob
          /\ files = files0 /\ tmpfiles = {}
          /\ csv = NoLog
    /\ (input_exists /\ mainpc \in {"exited", "raised"}) => exit_code = 0

\* The sets of C14: P, the indices with an output file when the run
\* began, and B, the others with a NaN coordinate.
PreExisting == { i \in Indices : FileAtStart(i) }
BadBounds == { i \in Indices \ PreExisting : HasNaN(polygons[i]) }
LogRows(i) == { k \in 1 .. Len(csv.rows) : csv.rows[k].index = i }

\* C14: in a run that found output files for the indices of P (not
\* empty), where the indices of B (not empty) have NaN bounds and every
\* other job's download, masking and write succeed (no collaborator
\* fails, the pause is one the clock accepts, no request is too large),
\* the counters are skipped = |P|, failed = |B|, completed = N - |P| - |B|
\* and failed_polygons.csv, written by this run, has exactly one row for
\* each index of B, with error_type InvalidGeometry, and no other row.
C14_EndToEnd ==
    (/\ mainpc = "exited" /\ input_exists
     /\ faults = 0 /\ sleep_duration.fits
     /\ PreExisting # {} /\ BadBounds # {}
     /\ \A i \in Indices \ (PreExisting \cup BadBounds) : ~Oversize(i)) =>
        /\ skipped = Cardinality(PreExisting)
        /\ failed_count = Cardinality(BadBounds)
        /\ completed = MaxPolys - Cardinality(PreExisting) - Cardinality(BadBounds)
        /\ csv.run = run
        /\ \A i \in BadBounds : Cardinality(LogRows(i)) = 1
        /\ \A k \in 1 .. Len(csv.rows) :
              /\ csv.rows[k].index \in BadBounds
              /\ csv.rows[k].error_type = "InvalidGeometry"

\* The stages of a job in the order of the code.
StageOrder ==
    << "skip_check", "validate", "connect", "plan", "request", "temp",
       "mask", "save", "unlink", "sleep" >>
StageNames == { StageOrder[k] : k \in 1 .. Len(StageOrder) }
RankOf == [name \in StageNames |-> CHOOSE k \in 1 .. Len(StageOrder) : StageOrder[k] = name]
Entered(i, name) == \E k \in 1 .. Len(job[i].stages) : job[i].stages[k] = name
MaskFailed(i) == job[i].exc.type = "mask" \/ job[i].result.error_type = "mask"

\* The stages the job of index i enters in this step.
NewStages(i) ==
    { k \in 1 .. Len(job'[i].stages) : k > Len(job[i].stages) }
Enters(i, name) == \E k \in NewStages(i) : job'[i].stages[k] = name

\* C15: every step of a job is a transition of the state machine.  Only
\* a job without a result that has not ended takes a step; the stages it
\* enters are added in the order skip check, plan, download, mask,
\* persist, none twice; it has a result exactly when it has returned, and
\* the result is Skipped only straight from the skip check; it enters
\* masking only after a download whose body is no error document; it
\* writes its output file only on entering the persist stage, straight
\* from masking and with no failure pending; so a job that has ended
\* enters no further stage and gets no second result.
C15_Step ==
    \A i \in Indices :
        (job'[i] # job[i] /\ run' = run) =>
            LET st == job[i].stages
                st2 == job'[i].stages
            IN  /\ ~Terminal(job[i])
                /\ job[i].result = NoResult
                /\ Len(st2) >= Len(st)
                /\ \A k \in 1 .. Len(st) : st2[k] = st[k]
                /\ \A k \in NewStages(i) :
                      /\ st2[k] \in StageNames
                      /\ k > 1 => RankOf[st2[k - 1]] < RankOf[st2[k]]
                /\ (job'[i].result # NoResult) <=> (job'[i].pc = "done")
                /\ job'[i].pc = "done" =>
                      IsSkipped(job'[i].result) \/ IsSuccess(job'[i].result)
                          \/ IsFailed(job'[i].result)
                /\ IsSkipped(job'[i].result) => st2 = << "skip_check" >>
                /\ Enters(i, "plan") => Entered(i, "skip_check") \/ Enters(i, "skip_check")
                /\ Enters(i, "request") => Entered(i, "plan")
                /\ Enters(i, "mask") =>
                      /\ Entered(i, "request")
                      /\ job[i].body # << >>
                      /\ ~StartsWithMarkup(job[i].body)
                /\ Enters(i, "save") =>
                      /\ st # << >> /\ st[Len(st)] = "mask"
                      /\ job[i].exc = NoExc
                /\ job'[i].wrote # job[i].wrote =>
                      Enters(i, "save") /\ job'[i].wrote = 1
                /\ files'[Path(i)] # files[Path(i)] => Enters(i, "save")
                /\ IsSuccess(job'[i].result) => Entered(i, "save") /\ job[i].wrote = 1

C15_StateMachine == [][C15_Step]_vars

\* A job went through every stage to Success while another failed in
\* masking.
C15_Witness ==
    \E i, k \in Indices :
        /\ job[i].pc = "done" /\ IsSuccess(job[i].result)
        /\ job[i].stages = StageOrder
        /\ job[k].pc = "done" /\ MaskFailed(k)

IdleWorker == \E w \in Workers : w <= workers /\ ~Busy(w)

C17_RunCompletes ==
    /\ \A i \in Indices :
          (mainpc = "collect") ~> (job[i].pc = "done")
    /\ (mainpc = "collect") ~> (mainpc = "returned" /\ AllCollected)
    /\ [](RunEnded => \A i \in Indices : Terminal(job[i]))

\* floor(x / y) for y > 0, and the pixel count the spec gives.
FloorDiv(x, y) == x \div y
Pixels(extent, resolution) ==
    IF FloorDiv(extent, resolution) >= 1 THEN FloorDiv(extent, resolution) ELSE 1

\* C18: for a box with maxx >= minx and maxy >= miny and a positive
\* resolution, what planning produces carries
\* width = max(1, floor((maxx - minx) / resolution)) and
\* height = max(1, floor((maxy - miny) / resolution)), never 0; an extent
\* of zero or below the resolution gives 1; and unless one of them
\* exceeds max_pixels, the request is sent with these dimensions and the
\* box itself.
C18_PlannedDimensions ==
    plan_request # NoRequest =>
        LET dx == plan_row.maxx.v - plan_row.minx.v
            dy == plan_row.maxy.v - plan_row.miny.v
            w == Pixels(dx, plan_resolution)
            h == Pixels(dy, plan_resolution)
        IN  /\ plan_request.width = w /\ plan_request.height = h
            /\ plan_request.width >= 1 /\ plan_request.height >= 1
            /\ dx < plan_resolution => plan_request.width = 1
            /\ dy < plan_resolution => plan_request.height = 1
            /\ IF w > DEFAULT_MAX_PIXELS \/ h > DEFAULT_MAX_PIXELS
               THEN plan_request.kind = "too_large"
               ELSE /\ plan_request.kind = "getCoverage"
                    /\ plan_request.bbox =
                           << plan_row.minx.v, plan_row.miny.v,
                              plan_row.maxx.v, plan_row.maxy.v >>

\* A request was sent for a box of zero width and a height below the
\* resolution.
C18_Witness ==
    /\ plan_request.kind = "getCoverage"
    /\ plan_row.maxx.v = plan_row.minx.v
    /\ plan_row.maxy.v - plan_row.miny.v > 0
    /\ plan_row.maxy.v - plan_row.miny.v < plan_resolution
    /\ plan_request.width = 1 /\ plan_request.height = 1

\* Some job for index i has returned Success, in this run or an earlier.
EverSucceeded(i) == i \in succeeded \/ IsSuccess(job[i].result)

\* C19: starting from an empty directory, a file is at the path of index
\* i (no job for i being at work) only if some job for i returned
\* Success; an index is Skipped only if an earlier run reported Success
\* for it; and a run that has returned has attempted every index for
\* which no earlier run reported Success.  Stated of the runs in which
\* every collaborator call succeeded, where it already fails.
C19_FileMeansSuccess ==
    faults = 0 =>
        \A i \in Indices :
            /\ (Exists(i) /\ ~Running(job[i])) => EverSucceeded(i)
            /\ IsSkipped(job[i].result) => i \in succeeded
            /\ (run > 1 /\ mainpc = "returned" /\ i \notin succeeded) => Attempted(i)

\* failed_polygons.csv as it is in the output directory now.
LogPresent == csv # NoLog \/ csv0 # NoOldLog
LogIndices ==
    IF csv # NoLog
    THEN { csv.rows[k].index : k \in 1 .. Len(csv.rows) }
    ELSE csv0.indices
LogRun == IF csv # NoLog THEN csv.run ELSE csv0.run

\* C20: when a run of the command has completed, failed_polygons.csv, if
\* present, was written by that run and lists exactly the indices whose
\* jobs were Failed in it; after a run without failures it is absent or
\* has no rows.  Stated of the runs that found output files only for
\* indices an earlier run reported Success for, where it already fails.
C20_LogIsOfLastRun ==
    (mainpc = "exited" /\ loaded /\ \A i \in Indices : FileAtStart(i) => i \in succeeded) =>
        /\ LogPresent => (LogRun = run /\ LogIndices = FailedIndices)
        /\ FailedIndices = {} => (~LogPresent \/ LogIndices = {})

====
